---- MODULE Spec2Model ----
(***************************************************************************)
(* Model of the Simple HTTP File Server (src/main.py).                     *)
(*                                                                         *)
(* Four specifications over one set of variables:                          *)
(*   Spec       one POST request handled by CustomHTTPRequestHandler       *)
(*              (__init__, do_POST), bytes modelled as sequences           *)
(*   ListSpec   one directory listing (list_directory)                     *)
(*   BootSpec   main(): TLS bootstrap, socket wrapping, serve_forever      *)
(*   FairServeSpec  the HTTPServer accept loop with several connections,   *)
(*              under the fairness of the server's own steps               *)
(*                                                                         *)
(* A byte (or character) is a one-token string; a byte string is a         *)
(* sequence of them.  CR, LF, DQ and XFF stand for \r, \n, the double      *)
(* quote and the byte 0xFF (never valid in UTF-8).                         *)
(***************************************************************************)
EXTENDS Integers, Sequences, FiniteSets, TLC

CR == "CR"
LF == "LF"
DQ == "DQ"
XFF == "xFF"

None == "None"

\* an absent header (self.headers[...] is None): no byte string equals it
NoHeader == << "<None>" >>

\* ------------------------------------------------------------------ bounds

\* number of multipart parts in a request body
MaxParts == 2
\* number of directory entries in a listing
MaxEntries == 3
\* connections the accept loop sees
MaxConn == 3
\* requests served after start-up in BootSpec
MaxAccepted == 2

\* ------------------------------------------- Python bytes / str operations

SetMin(S) == CHOOSE x \in S : \A y \in S : x <= y

\* A slice index as Python normalises it against a length n.
ClampIdx(i, n) ==
    IF i < 0 THEN (IF i + n < 0 THEN 0 ELSE i + n)
    ELSE IF i > n THEN n ELSE i

\* s[lo:hi]
PySlice(s, lo, hi) ==
    LET a == ClampIdx(lo, Len(s))
        b == ClampIdx(hi, Len(s))
    IN  IF a >= b THEN << >> ELSE SubSeq(s, a + 1, b)

\* s[lo:]
PySliceFrom(s, lo) == PySlice(s, lo, Len(s))

\* pat occurs in s at 0-based offset i
OccursAt(s, pat, i) ==
    /\ i >= 0
    /\ i + Len(pat) <= Len(s)
    /\ \A k \in 1..Len(pat) : s[i + k] = pat[k]

\* s.find(pat, start): the lowest offset >= start, or -1
PyFind(s, pat, start) ==
    LET from == ClampIdx(start, Len(s))
        hits == {i \in from..(Len(s) - Len(pat)) : OccursAt(s, pat, i)}
    IN  IF hits = {} THEN -1 ELSE SetMin(hits)

\* pat in s
PyIn(pat, s) == PyFind(s, pat, 0) # -1

\* s.startswith(pat)
PyStartsWith(s, pat) == OccursAt(s, pat, 0)

\* s.split(sep), sep non-empty
RECURSIVE PySplit(_, _)
PySplit(s, sep) ==
    LET i == PyFind(s, sep, 0)
    IN  IF i = -1 THEN << s >>
        ELSE << PySlice(s, 0, i) >> \o PySplit(PySliceFrom(s, i + Len(sep)), sep)

IsSpace(c) == c \in {" ", CR, LF}

\* s.strip()
RECURSIVE PyStrip(_)
PyStrip(s) ==
    IF s = << >> THEN s
    ELSE IF IsSpace(s[1]) THEN PyStrip(Tail(s))
    ELSE IF IsSpace(s[Len(s)]) THEN PyStrip(SubSeq(s, 1, Len(s) - 1))
    ELSE s

Digits == << "0", "1", "2", "3", "4", "5", "6", "7", "8", "9" >>

DigitVal(c) == CHOOSE d \in 0..9 : Digits[d + 1] = c

IsDigit(c) == \E d \in 1..10 : Digits[d] = c

\* str(n) for n >= 0
RECURSIVE PyStr(_)
PyStr(n) ==
    IF n < 10 THEN << Digits[n + 1] >>
    ELSE PyStr(n \div 10) \o << Digits[(n % 10) + 1] >>

RECURSIVE DigitsVal(_)
DigitsVal(s) ==
    IF s = << >> THEN 0
    ELSE 10 * DigitsVal(SubSeq(s, 1, Len(s) - 1)) + DigitVal(s[Len(s)])

\* int(v): v is NoHeader (None) or a string; the result is
\* [raises |-> the exception's name or None, val |-> the integer]
PyInt(v) ==
    IF v = NoHeader THEN [raises |-> "TypeError", val |-> 0]
    ELSE LET t == PyStrip(v)
             neg == t # << >> /\ t[1] = "-"
             d == IF t # << >> /\ t[1] \in {"-", "+"} THEN Tail(t) ELSE t
         IN  IF d # << >> /\ \A k \in 1..Len(d) : IsDigit(d[k])
             THEN [raises |-> None, val |-> IF neg THEN 0 - DigitsVal(d) ELSE DigitsVal(d)]
             ELSE [raises |-> "ValueError", val |-> 0]

\* bytes.decode('utf-8') raises on a byte that is not UTF-8
DecodeRaises(b) == \E k \in 1..Len(b) : b[k] = XFF

\* format % () raises unless every % of the format is doubled
RECURSIVE PercentFormatRaises(_)
PercentFormatRaises(fmt) ==
    IF fmt = << >> THEN FALSE
    ELSE IF fmt[1] # "%" THEN PercentFormatRaises(Tail(fmt))
    ELSE IF Len(fmt) >= 2 /\ fmt[2] = "%" THEN PercentFormatRaises(Tail(Tail(fmt)))
    ELSE TRUE

\* ---------------------------------------------------------------- state

VARIABLES
    \* --- one POST request (Spec)
    cfgUploads,        \* args.uploads, bound into the handler factory
    enable_uploads,    \* self.enable_uploads
    hdrContentType,    \* self.headers['Content-Type'] (NoHeader when absent)
    hdrContentLength,  \* self.headers['Content-Length'] (NoHeader when absent)
    reqPath,           \* self.path
    form,              \* the parts the client framed into the body, in order
    rfile,             \* the bytes the client sent after the headers
    pc,                \* the handler's position
    parts,             \* do_POST's local: the split body
    idx,               \* do_POST's loop position in parts (1-based)
    responses,         \* status lines written to wfile, in order
    files,             \* the file system's regular files: path -> content
    opens,             \* every open(file_path, 'wb') do_POST made, in order
    exc,               \* the exception that left the handler unhandled, or None
    \* --- one directory listing (ListSpec)
    entries,           \* the directory: a set of [name, isdir]
    readable,          \* whether os.listdir(path) succeeds
    listed,            \* what os.listdir returned
    listing,           \* list_directory's local after the sort
    rows,              \* the table rows emitted, in order
    lstatus,           \* the status list_directory sent (0: none yet)
    lpc,               \* list_directory's position
    \* --- start-up (BootSpec)
    bpc,               \* main()'s position
    argSsl,            \* args.ssl
    askedSsl,          \* whether -s was given (args.ssl as parsed)
    certFile,          \* state of args.cert: "missing", "valid", "invalid"
    keyFile,           \* state of args.key
    genOutcome,        \* what generate_certificate did: None, "ok", or the failed step
    genStep,           \* generate_certificate's position in GenSteps
    wrapped,           \* server.socket is an SSL socket
    accepted,          \* connections accepted by serve_forever so far
    \* --- the accept loop (ServeSpec)
    conn,              \* per connection: its state
    busy               \* the connection the server is handling, or 0

postVars == << cfgUploads, enable_uploads, hdrContentType, hdrContentLength,
               reqPath, form, rfile, pc, parts, idx, responses, files, opens, exc >>
listVars == << entries, readable, listed, listing, rows, lstatus, lpc >>
bootVars == << bpc, argSsl, askedSsl, certFile, keyFile, genOutcome, genStep,
               wrapped, accepted >>
serveVars == << conn, busy >>
vars == << postVars, listVars, bootVars, serveVars >>

PostIdle ==
    /\ cfgUploads = FALSE /\ enable_uploads = FALSE
    /\ hdrContentType = NoHeader /\ hdrContentLength = NoHeader
    /\ reqPath = << >> /\ form = << >> /\ rfile = << >> /\ pc = "off"
    /\ parts = << >> /\ idx = 0 /\ responses = << >>
    /\ files = << >> /\ opens = << >> /\ exc = None

ListIdle ==
    /\ entries = {} /\ readable = FALSE /\ listed = << >> /\ listing = << >>
    /\ rows = << >> /\ lstatus = 0 /\ lpc = "off"

BootIdle ==
    /\ bpc = "off" /\ argSsl = FALSE /\ askedSsl = FALSE
    /\ certFile = "missing" /\ keyFile = "missing"
    /\ genOutcome = None /\ genStep = 0 /\ wrapped = FALSE /\ accepted = 0

ServeIdle ==
    /\ conn = << >> /\ busy = 0

\* ------------------------------------------------------- the file system

\* self.directory, the served root
Directory == <<"/", "s", "r", "v">>

RootComps == << <<"s", "r", "v">> >>

\* the directories that exist: /, /srv, /srv/d
Dirs == { << >>, << <<"s", "r", "v">> >>, << <<"s", "r", "v">>, <<"d">> >> }

\* the regular files that exist before the request: /srv/a
InitialFiles == (<< <<"s", "r", "v">>, <<"a">> >> :> <<"o", "l", "d">>)

\* posixpath.join(a, b)
PathJoin(a, b) ==
    IF PyStartsWith(b, << "/" >>) THEN b
    ELSE IF a = << >> \/ a[Len(a)] = "/" THEN a \o b
    ELSE a \o << "/" >> \o b

Parent(at) == IF at = << >> THEN at ELSE SubSeq(at, 1, Len(at) - 1)

\* The kernel's walk of an absolute path: every component but the last
\* must name an existing directory.
RECURSIVE Walk(_, _)
Walk(at, comps) ==
    IF comps = << >> THEN [err |-> None, at |-> at]
    ELSE IF at \notin Dirs THEN [err |-> "ENOENT", at |-> at]
    ELSE LET c == Head(comps)
         IN  IF c = << >> \/ c = << "." >> THEN Walk(at, Tail(comps))
             ELSE IF c = << ".", "." >> THEN Walk(Parent(at), Tail(comps))
             ELSE Walk(at \o << c >>, Tail(comps))

\* Where open(path, 'wb') lands: [err, at]; err is None when the file can
\* be created or truncated there.
OpenTarget(path) ==
    LET w == Walk(<< >>, PySplit(path, << "/" >>))
    IN  IF w.err # None THEN w
        ELSE IF w.at \in Dirs THEN [err |-> "EISDIR", at |-> w.at]
        ELSE w

InsideRoot(at) ==
    /\ Len(at) > Len(RootComps)
    /\ SubSeq(at, 1, Len(RootComps)) = RootComps

\* str(e) of the OSError open() raises: it quotes the path
OpenErrorText(err, path) ==
    (CASE err = "ENOENT" -> <<"[", "E", "r", "r", "n", "o", " ", "2", "]", " ", "N", "o", " ", "s", "u", "c", "h", " ", "f", "i", "l", "e", " ", "o", "r", " ", "d", "i", "r", "e", "c", "t", "o", "r", "y", ":", " ", "'">>
       [] err = "EISDIR" -> <<"[", "E", "r", "r", "n", "o", " ", "2", "1", "]", " ", "I", "s", " ", "a", " ", "d", "i", "r", "e", "c", "t", "o", "r", "y", ":", " ", "'">>
       [] OTHER -> <<"[", "E", "r", "r", "n", "o", " ", "1", "3", "]", " ", "P", "e", "r", "m", "i", "s", "s", "i", "o", "n", " ", "d", "e", "n", "i", "e", "d", ":", " ", "'">>)
    \o path \o << "'" >>

\* str(e) of the OSError a failed write or flush raises: no path in it
WriteErrorText == <<"[", "E", "r", "r", "n", "o", " ", "2", "8", "]", " ", "N", "o", " ", "s", "p", "a", "c", "e", " ", "l", "e", "f", "t", " ", "o", "n", " ", "d", "e", "v", "i", "c", "e">>

\* str(e) of the TypeError / ValueError that format % () raises
FormatErrorText == <<"n", "o", "t", " ", "e", "n", "o", "u", "g", "h", " ", "a", "r", "g", "u", "m", "e", "n", "t", "s", " ", "f", "o", "r", " ", "f", "o", "r", "m", "a", "t", " ", "s", "t", "r", "i", "n", "g">>

\* ------------------------------------------------------------ the handler

Units == << <<"B">>, <<"K", "B">>, <<"M", "B">>, <<"G", "B">>, <<"T", "B">> >>

\* f"{n/d:.1f}": n/d rounded to one decimal, ties to even
OneDecimal(n, d) ==
    LET q == (10 * n) \div d
        r == (10 * n) % d
        t == IF 2 * r > d THEN q + 1
             ELSE IF 2 * r < d THEN q
             ELSE IF q % 2 = 0 THEN q ELSE q + 1
    IN  PyStr(t \div 10) \o << "." >> \o << Digits[(t % 10) + 1] >>

\* format_size's loop at unit k, d = 1024^(k-1)
RECURSIVE FormatSizeFrom(_, _, _)
FormatSizeFrom(size, k, d) ==
    IF k > Len(Units) THEN OneDecimal(size, d) \o <<" ", "P", "B">>
    ELSE IF size < 1024 * d THEN OneDecimal(size, d) \o << " " >> \o Units[k]
    ELSE FormatSizeFrom(size, k + 1, 1024 * d)

format_size(size) == FormatSizeFrom(size, 1, 1)

\* log_message(format) called with no args: format % () is evaluated
LogMessageRaises(format) == PercentFormatRaises(format)

UploadedFormat(filename, content) ==
    <<"F", "i", "l", "e", " ", "u", "p", "l", "o", "a", "d", "e", "d", ":", " ">> \o filename \o <<" ", "(">> \o format_size(Len(content)) \o <<")">>

ErrorFormat(text) == <<"E", "r", "r", "o", "r", " ", "s", "a", "v", "i", "n", "g", " ", "f", "i", "l", "e", ":", " ">> \o text

\* a response without a Location header
Response(status) == [status |-> status, location |-> << >>]

Redirect(path) == [status |-> 303, location |-> path]

\* rfile.read(n): the client has sent rfile and closed its sending side
RfileRead(n) == IF n < 0 THEN rfile ELSE PySlice(rfile, 0, n)

FilenameMarker == <<"f", "i", "l", "e", "n", "a", "m", "e", "=">>

QuotedFilenameMarker == <<"f", "i", "l", "e", "n", "a", "m", "e", "=", DQ>>

HeaderEnd == << CR, LF, CR, LF >>

\* do_POST's filename extraction for one part (lines 167-169)
FilenameBytes(part) ==
    LET filename_start == PyFind(part, QuotedFilenameMarker, 0) + 10
        filename_end == PyFind(part, << DQ >>, filename_start)
    IN  PySlice(part, filename_start, filename_end)

\* do_POST's content extraction for one part (lines 176-177)
ContentBytes(part) ==
    LET content_start == PyFind(part, HeaderEnd, 0) + 4
    IN  PySlice(part, content_start, -2)

\* whether do_POST takes the part for a file upload (line 165)
IsFilePart(part) == PyIn(FilenameMarker, part)

\* the boundary do_POST takes from the Content-Type header (line 154):
\* [raises, val]
BoundaryOf(content_type) ==
    LET pieces == PySplit(content_type, << "=" >>)
    IN  IF Len(pieces) < 2 THEN [raises |-> "IndexError", val |-> << >>]
        ELSE [raises |-> None, val |-> PyStrip(pieces[2])]

\* the guard of line 149
NotMultipart ==
    \/ hdrContentType = NoHeader
    \/ hdrContentType = << >>
    \/ ~PyStartsWith(hdrContentType, <<"m", "u", "l", "t", "i", "p", "a", "r", "t", "/", "f", "o", "r", "m", "-", "d", "a", "t", "a">>)

\* UploadsRefused with a fault: the uploads check made after the Content-Type
\* check, so a request that is not multipart falls through to the 400
UploadsRefused_AfterContentType == ~enable_uploads /\ ~NotMultipart

\* the guard of line 142
UploadsRefused == ~enable_uploads

\* what __init__ stores in self.enable_uploads (line 19)
InitEnableUploads == cfgUploads

\* CustomHTTPRequestHandler.__init__: store the flag, then the base class
\* parses the request and dispatches to do_POST
HandlerInit ==
    /\ pc = "accepted"
    /\ enable_uploads' = InitEnableUploads
    /\ pc' = "do_POST"
    /\ UNCHANGED << cfgUploads, hdrContentType, hdrContentLength, reqPath, form, rfile,
                    parts, idx, responses, files, opens, exc >>
    /\ UNCHANGED << listVars, bootVars, serveVars >>

Finish(status) ==
    /\ responses' = Append(responses, status)
    /\ pc' = "done"
    /\ UNCHANGED exc

Crash(e) ==
    /\ exc' = e
    /\ pc' = "crashed"
    /\ UNCHANGED responses

\* do_POST up to the split of the body (lines 142-161)
do_POST_begin ==
    /\ pc = "do_POST"
    /\ IF UploadsRefused
       THEN Finish(Response(405)) /\ UNCHANGED << parts, idx >>
       ELSE IF NotMultipart
       THEN Finish(Response(400)) /\ UNCHANGED << parts, idx >>
       ELSE LET b == BoundaryOf(hdrContentType)
                n == PyInt(hdrContentLength)
            IN  IF b.raises # None
                THEN Crash(b.raises) /\ UNCHANGED << parts, idx >>
                ELSE IF n.raises # None
                THEN Crash(n.raises) /\ UNCHANGED << parts, idx >>
                ELSE /\ parts' = PySplit(RfileRead(n.val), <<"-", "-">> \o b.val)
                     /\ idx' = 1
                     /\ pc' = "loop"
                     /\ UNCHANGED << responses, exc >>
    /\ UNCHANGED << cfgUploads, enable_uploads, hdrContentType, hdrContentLength,
                    reqPath, form, rfile, files, opens >>
    /\ UNCHANGED << listVars, bootVars, serveVars >>

Opened(filename, target, outcome, data) ==
    [part |-> idx, filename |-> filename, at |-> target.at,
     outcome |-> outcome, data |-> data]

\* the outcomes open(file_path, 'wb') / f.write(content) can have
OpenOutcomes(target) ==
    IF target.err # None THEN {target.err} ELSE {"ok", "EACCES", "ENOSPC"}

\* one iteration of do_POST's loop over the parts (lines 164-188)
do_POST_part ==
    /\ pc = "loop"
    /\ idx <= Len(parts)
    /\ LET part == parts[idx]
           raw == FilenameBytes(part)
           filename == raw
           content == ContentBytes(part)
           file_path == PathJoin(Directory, filename)
           target == OpenTarget(file_path)
       IN  IF ~IsFilePart(part)
           THEN /\ idx' = idx + 1
                /\ UNCHANGED << pc, responses, files, opens, exc >>
           ELSE IF DecodeRaises(raw)
           THEN Crash("UnicodeDecodeError") /\ UNCHANGED << idx, files, opens >>
           ELSE IF filename = << >>
           THEN /\ idx' = idx + 1
                /\ UNCHANGED << pc, responses, files, opens, exc >>
           ELSE \E outcome \in OpenOutcomes(target) :
                  \/ /\ outcome = "ok"
                     /\ files' = (target.at :> content) @@ files
                     /\ opens' = Append(opens, Opened(filename, target, outcome, content))
                     /\ IF LogMessageRaises(UploadedFormat(filename, content))
                        THEN \* caught by the except clause of line 185
                             IF LogMessageRaises(ErrorFormat(FormatErrorText))
                             THEN Crash("TypeError") /\ UNCHANGED idx
                             ELSE Finish(Response(500)) /\ UNCHANGED idx
                        ELSE /\ idx' = idx + 1
                             /\ UNCHANGED << pc, responses, exc >>
                  \/ /\ outcome = "ENOSPC"
                     /\ \E n \in 0..Len(content) :
                          /\ n = 0 \/ n < Len(content)
                          /\ files' = (target.at :> SubSeq(content, 1, n)) @@ files
                          /\ opens' = Append(opens,
                                 Opened(filename, target, outcome, SubSeq(content, 1, n)))
                     /\ IF LogMessageRaises(ErrorFormat(WriteErrorText))
                        THEN Crash("TypeError") /\ UNCHANGED idx
                        ELSE Finish(Response(500)) /\ UNCHANGED idx
                  \/ /\ outcome \notin {"ok", "ENOSPC"}
                     /\ opens' = Append(opens, Opened(filename, target, outcome, << >>))
                     /\ UNCHANGED files
                     /\ IF LogMessageRaises(ErrorFormat(OpenErrorText(outcome, file_path)))
                        THEN Crash("TypeError") /\ UNCHANGED idx
                        ELSE Finish(Response(500)) /\ UNCHANGED idx
    /\ UNCHANGED << cfgUploads, enable_uploads, hdrContentType, hdrContentLength,
                    reqPath, form, rfile, parts >>
    /\ UNCHANGED << listVars, bootVars, serveVars >>

\* the redirect after the loop (lines 190-193)
do_POST_redirect ==
    /\ pc = "loop"
    /\ idx > Len(parts)
    /\ Finish(Redirect(reqPath))
    /\ UNCHANGED << cfgUploads, enable_uploads, hdrContentType, hdrContentLength,
                    reqPath, form, rfile, parts, idx, files, opens >>
    /\ UNCHANGED << listVars, bootVars, serveVars >>

\* ------------------------------------------------------ the request inputs

Delimiter == <<"-", "-", "X">>

FileHeader(name) ==
    <<"C", "o", "n", "t", "e", "n", "t", "-", "D", "i", "s", "p", "o", "s", "i", "t", "i", "o", "n", ":", " ", "f", "o", "r", "m", "-", "d", "a", "t", "a", ";", " ", "n", "a", "m", "e", "=", DQ, "f", DQ, ";", " ", "f", "i", "l", "e", "n", "a", "m", "e", "=", DQ>> \o name \o << DQ >>

UnquotedHeader(name) ==
    <<"C", "o", "n", "t", "e", "n", "t", "-", "D", "i", "s", "p", "o", "s", "i", "t", "i", "o", "n", ":", " ", "f", "o", "r", "m", "-", "d", "a", "t", "a", ";", " ", "n", "a", "m", "e", "=", DQ, "f", DQ, ";", " ", "f", "i", "l", "e", "n", "a", "m", "e", "=">> \o name

FieldHeader == <<"C", "o", "n", "t", "e", "n", "t", "-", "D", "i", "s", "p", "o", "s", "i", "t", "i", "o", "n", ":", " ", "f", "o", "r", "m", "-", "d", "a", "t", "a", ";", " ", "n", "a", "m", "e", "=", DQ, "n", "o", "t", "e", DQ>>

\* a part as a client frames it: headers, blank line, content, CRLF
FramedPart(header, content) ==
    << CR, LF >> \o header \o HeaderEnd \o content \o << CR, LF >>

\* a part cut short: no blank line after the headers
NoBlankLinePart(header) == << CR, LF >> \o header \o << CR, LF >>

\* a part cut short after the blank line: tail is shorter than CRLF
ShortPart(header, tail) == << CR, LF >> \o header \o HeaderEnd \o tail

Filenames ==
    { <<"a">>, <<"b">>, << >>, <<".", ".", "/", "e">>, <<"/", "e">>, <<"d">>, <<"p", "%">>, << XFF >> }

FieldContents == { <<"h", "i">>, <<"f", "i", "l", "e", "n", "a", "m", "e", "=", DQ, "c", DQ>>, <<"f", "i", "l", "e", "n", "a", "m", "e", "=", "c">> }

PartSet ==
    { FramedPart(FileHeader(n), <<"h", "i">>) : n \in Filenames }
    \cup { FramedPart(FileHeader(<<"a">>), <<"y", "o">>) }
    \cup { FramedPart(FieldHeader, c) : c \in FieldContents }
    \cup { FramedPart(UnquotedHeader(<<"a">>), <<"h", "i">>) }
    \cup { NoBlankLinePart(FileHeader(<<"a">>)) }
    \cup { ShortPart(FileHeader(<<"a">>), t) : t \in { << >>, <<"h">> } }

RECURSIVE BodyOf(_)
BodyOf(ps) ==
    IF ps = << >> THEN Delimiter \o <<"-", "-">> \o << CR, LF >>
    ELSE Delimiter \o Head(ps) \o BodyOf(Tail(ps))

PartSeqs == UNION { [1..n -> PartSet] : n \in 0..MaxParts }

ContentTypes ==
    { NoHeader, <<"t", "e", "x", "t", "/", "p", "l", "a", "i", "n">>, <<"m", "u", "l", "t", "i", "p", "a", "r", "t", "/", "f", "o", "r", "m", "-", "d", "a", "t", "a">>,
      <<"m", "u", "l", "t", "i", "p", "a", "r", "t", "/", "f", "o", "r", "m", "-", "d", "a", "t", "a", ";", " ", "b", "o", "u", "n", "d", "a", "r", "y", "=", "X">> }

Paths == { <<"/">>, <<"/", "u", "p", "/">> }

ContentLengths(body) == { NoHeader, <<"a", "b", "c">>, PyStr(Len(body)) }

Init ==
    /\ cfgUploads \in BOOLEAN
    /\ enable_uploads = FALSE
    /\ hdrContentType \in ContentTypes
    /\ form \in PartSeqs
    /\ rfile = BodyOf(form)
    /\ hdrContentLength \in ContentLengths(rfile)
    /\ reqPath \in Paths
    /\ pc = "accepted"
    /\ parts = << >>
    /\ idx = 0
    /\ responses = << >>
    /\ files = InitialFiles
    /\ opens = << >>
    /\ exc = None
    /\ ListIdle /\ BootIdle /\ ServeIdle

Next == HandlerInit \/ do_POST_begin \/ do_POST_part \/ do_POST_redirect

Spec == Init /\ [][Next]_vars

\* ------------------------------------------------------- list_directory

\* ord(c) of the characters directory names are drawn from
Ord(c) ==
    CASE c = "." -> 46
      [] c = "A" -> 65
      [] c = "B" -> 66
      [] c = "_" -> 95
      [] c = "a" -> 97
      [] c = "b" -> 98

\* str.lower() of one character
LowerChar(c) ==
    CASE c = "A" -> "a"
      [] c = "B" -> "b"
      [] OTHER -> c

\* x.lower()
Lower(s) == [k \in 1..Len(s) |-> LowerChar(s[k])]

\* s < t for Python strings: lexicographic by code point
RECURSIVE StrLess(_, _)
StrLess(s, t) ==
    IF t = << >> THEN FALSE
    ELSE IF s = << >> THEN TRUE
    ELSE IF Ord(s[1]) # Ord(t[1]) THEN Ord(s[1]) < Ord(t[1])
    ELSE StrLess(Tail(s), Tail(t))

\* SortKey with a fault: the names compared as they are, without lower()
SortKey_CaseSensitive(e) == [file |-> ~e.isdir, name |-> e.name]

\* the sort key of line 36: (not isdir, x.lower())
SortKey(e) == [file |-> ~e.isdir, name |-> Lower(e.name)]

\* k1 < k2 for the key tuples (False < True, then the strings)
KeyLess(k1, k2) ==
    \/ ~k1.file /\ k2.file
    \/ k1.file = k2.file /\ StrLess(k1.name, k2.name)

\* list.sort(key=...) is stable: an element goes after every element
\* already placed whose key is not greater
InsertStable(sorted, e) ==
    LET after == {i \in 1..Len(sorted) : KeyLess(SortKey(e), SortKey(sorted[i]))}
        at == IF after = {} THEN Len(sorted) + 1 ELSE SetMin(after)
    IN  SubSeq(sorted, 1, at - 1) \o << e >> \o SubSeq(sorted, at, Len(sorted))

RECURSIVE SortFrom(_, _)
SortFrom(sorted, rest) ==
    IF rest = << >> THEN sorted
    ELSE SortFrom(InsertStable(sorted, Head(rest)), Tail(rest))

\* listing.sort(key=lambda x: (not isdir(x), x.lower()))
SortListing(l) == SortFrom(<< >>, l)

\* name.startswith('.')
IsHidden(e) == PyStartsWith(e.name, << "." >>)

\* the loop of lines 75-107: one table row per entry that is not hidden
RECURSIVE RenderRows(_)
RenderRows(l) ==
    IF l = << >> THEN << >>
    ELSE IF IsHidden(Head(l)) THEN RenderRows(Tail(l))
    ELSE << [name |-> Head(l).name, is_dir |-> Head(l).isdir] >> \o RenderRows(Tail(l))

\* the names a served directory may hold ("." and ".." are never listed)
Names == { <<"a">>, <<"A">>, <<"B">>, <<"b">>, <<"A", "b">>, <<"a", "B">>, <<"_">>, <<".", "a">> }

AllEntries == { [name |-> n, isdir |-> d] : n \in Names, d \in BOOLEAN }

\* the orders os.listdir may return the directory in
ListdirOrders(dir) ==
    { o \in [1..Cardinality(dir) -> dir] : \A i, j \in 1..Cardinality(dir) : i # j => o[i] # o[j] }

\* list_directory when os.listdir succeeds (lines 31, 36-130)
list_directory_ok ==
    /\ lpc = "GET"
    /\ readable
    /\ \E o \in ListdirOrders(entries) :
         /\ listed' = o
         /\ listing' = SortListing(o)
         /\ rows' = RenderRows(SortListing(o))
    /\ lstatus' = 200
    /\ lpc' = "sent"
    /\ UNCHANGED << entries, readable >>
    /\ UNCHANGED << postVars, bootVars, serveVars >>

\* list_directory when os.listdir raises OSError (lines 32-34)
list_directory_error ==
    /\ lpc = "GET"
    /\ ~readable
    /\ lstatus' = 404
    /\ lpc' = "sent"
    /\ UNCHANGED << entries, readable, listed, listing, rows >>
    /\ UNCHANGED << postVars, bootVars, serveVars >>

ListInit ==
    /\ \E n \in 0..MaxEntries :
         \E f \in [1..n -> AllEntries] :
            /\ \A i, j \in 1..n : i # j => f[i].name # f[j].name
            /\ entries = {f[i] : i \in 1..n}
    /\ readable \in BOOLEAN
    /\ listed = << >>
    /\ listing = << >>
    /\ rows = << >>
    /\ lstatus = 0
    /\ lpc = "GET"
    /\ PostIdle /\ BootIdle /\ ServeIdle

ListNext == list_directory_ok \/ list_directory_error

ListSpec == ListInit /\ [][ListNext]_vars

\* ------------------------------------------------------------------ main

\* generate_certificate's steps, in order (lines 209, 212-213, 216-228,
\* 231-232, 234-235)
GenSteps == << "import", "generate_key", "sign", "write_cert", "write_key" >>

BootUnchanged == UNCHANGED << postVars, listVars, serveVars >>

\* SslAfterFailedGeneration with a fault: line 266 left out
SslAfterFailedGeneration_Kept == TRUE

\* args.ssl after generate_certificate returned False (line 266)
SslAfterFailedGeneration == FALSE

\* lines 261-264: decide whether a certificate must be generated
main_check_files ==
    /\ bpc = "start"
    /\ IF argSsl /\ (certFile = "missing" \/ keyFile = "missing")
       THEN /\ bpc' = "generate"
            /\ genStep' = 1
       ELSE /\ bpc' = "create_server"
            /\ UNCHANGED genStep
    /\ UNCHANGED << argSsl, askedSsl, certFile, keyFile, genOutcome, wrapped, accepted >>
    /\ BootUnchanged

\* a step of generate_certificate that succeeds; the two writes leave a
\* PEM file behind, the last one returns True (line 237)
generate_certificate_step ==
    /\ bpc = "generate"
    /\ certFile' = IF GenSteps[genStep] = "write_cert" THEN "valid" ELSE certFile
    /\ keyFile' = IF GenSteps[genStep] = "write_key" THEN "valid" ELSE keyFile
    /\ IF genStep = Len(GenSteps)
       THEN /\ genOutcome' = "ok"
            /\ bpc' = "create_server"
            /\ UNCHANGED genStep
       ELSE /\ genStep' = genStep + 1
            /\ UNCHANGED << genOutcome, bpc >>
    /\ UNCHANGED << argSsl, askedSsl, wrapped, accepted >>
    /\ BootUnchanged

\* a step of generate_certificate that raises: the except clause returns
\* False (lines 238-240) and main turns TLS off (lines 264-266); a write
\* that raises may leave its file truncated
generate_certificate_fails ==
    /\ bpc = "generate"
    /\ genOutcome' = GenSteps[genStep]
    /\ \E left \in {"as it was", "truncated"} :
         /\ certFile' = IF GenSteps[genStep] = "write_cert" /\ left = "truncated"
                        THEN "invalid" ELSE certFile
         /\ keyFile' = IF GenSteps[genStep] = "write_key" /\ left = "truncated"
                       THEN "invalid" ELSE keyFile
    /\ argSsl' = SslAfterFailedGeneration
    /\ bpc' = "create_server"
    /\ UNCHANGED << askedSsl, genStep, wrapped, accepted >>
    /\ BootUnchanged

\* lines 269-272: the handler factory and HTTPServer(...); the bind is
\* taken to succeed
main_create_server ==
    /\ bpc = "create_server"
    /\ bpc' = "wrap"
    /\ UNCHANGED << argSsl, askedSsl, certFile, keyFile, genOutcome, genStep, wrapped, accepted >>
    /\ BootUnchanged

\* what ssl.wrap_socket(...) of line 276 can do: it loads the certificate
\* chain, so it raises when a file is missing or is not PEM; it also raises
\* where the ssl module has no wrap_socket (Python 3.12 and later)
WrapOutcomes ==
    IF certFile = "valid" /\ keyFile = "valid" THEN {"wrapped", "raises"} ELSE {"raises"}

\* lines 275-282: wrap the listening socket if args.ssl; nothing catches
\* what wrap_socket raises
main_wrap_socket ==
    /\ bpc = "wrap"
    /\ IF argSsl
       THEN \E o \in WrapOutcomes :
               IF o = "wrapped"
               THEN wrapped' = TRUE /\ bpc' = "serving"
               ELSE wrapped' = wrapped /\ bpc' = "crashed"
       ELSE wrapped' = wrapped /\ bpc' = "serving"
    /\ UNCHANGED << argSsl, askedSsl, certFile, keyFile, genOutcome, genStep, accepted >>
    /\ BootUnchanged

\* line 306: serve_forever accepts a connection on server.socket
serve_forever_accept ==
    /\ bpc = "serving"
    /\ accepted < MaxAccepted
    /\ accepted' = accepted + 1
    /\ UNCHANGED << bpc, argSsl, askedSsl, certFile, keyFile, genOutcome, genStep, wrapped >>
    /\ BootUnchanged

FileStates == {"missing", "valid", "invalid"}

BootInit ==
    /\ bpc = "start"
    /\ askedSsl \in BOOLEAN
    /\ argSsl = askedSsl
    /\ certFile \in FileStates
    /\ keyFile \in FileStates
    /\ genOutcome = None
    /\ genStep = 0
    /\ wrapped = FALSE
    /\ accepted = 0
    /\ PostIdle /\ ListIdle /\ ServeIdle

BootNext ==
    \/ main_check_files
    \/ generate_certificate_step
    \/ generate_certificate_fails
    \/ main_create_server
    \/ main_wrap_socket
    \/ serve_forever_accept

BootSpec == BootInit /\ [][BootNext]_vars

\* ------------------------------------------------- HTTPServer.serve_forever

Conns == 1..MaxConn

\* a client connects and sends its request line and headers; left is the
\* number of body chunks of Content-Length it has not sent yet
client_connect(c) ==
    /\ conn[c].st = "idle"
    /\ \E left \in 0..1 : conn' = [conn EXCEPT ![c] = [st |-> "queued", left |-> left]]
    /\ UNCHANGED busy
    /\ UNCHANGED << postVars, listVars, bootVars >>

\* a client sends the rest of its body (or closes its sending side)
client_send_rest(c) ==
    /\ conn[c].st \in {"queued", "handling"}
    /\ conn[c].left > 0
    /\ conn' = [conn EXCEPT ![c].left = 0]
    /\ UNCHANGED busy
    /\ UNCHANGED << postVars, listVars, bootVars >>

\* lines 272 and 306: HTTPServer is socketserver's TCPServer without a
\* threading mix-in, so serve_forever accepts the next connection only
\* after the handler of the previous one has returned
server_accept(c) ==
    /\ busy = 0
    /\ conn[c].st = "queued"
    /\ conn' = [conn EXCEPT ![c].st = "handling"]
    /\ busy' = c
    /\ UNCHANGED << postVars, listVars, bootVars >>

\* the handler runs in the server's thread: rfile.read(content_length) of
\* line 158 returns once the whole body is there, then the response goes
\* out and the handler returns
server_handle(c) ==
    /\ busy = c
    /\ conn[c].st = "handling"
    /\ conn[c].left = 0
    /\ conn' = [conn EXCEPT ![c].st = "answered"]
    /\ busy' = 0
    /\ UNCHANGED << postVars, listVars, bootVars >>

ServerStep == \E c \in Conns : server_accept(c) \/ server_handle(c)

ServeInit ==
    /\ conn = [c \in Conns |-> [st |-> "idle", left |-> 0]]
    /\ busy = 0
    /\ PostIdle /\ ListIdle /\ BootIdle

ServeNext ==
    \/ \E c \in Conns : client_connect(c)
    \/ \E c \in Conns : client_send_rest(c)
    \/ \E c \in Conns : server_accept(c)
    \/ \E c \in Conns : server_handle(c)

\* the server's own steps are taken when they can be; a client is under
\* no obligation to send anything
FairServeSpec == ServeInit /\ [][ServeNext]_vars /\ WF_vars(ServerStep)

\* ------------------------------------------------------------ properties

Finished == pc \in {"done", "crashed"}

\* the request carries the headers a browser sends for the upload form
GoodHeaders ==
    /\ hdrContentType = <<"m", "u", "l", "t", "i", "p", "a", "r", "t", "/", "f", "o", "r", "m", "-", "d", "a", "t", "a", ";", " ", "b", "o", "u", "n", "d", "a", "r", "y", "=", "X">>
    /\ hdrContentLength = PyStr(Len(rfile))

\* the bytes of a part before its first blank line (all of it without one)
HeaderBlock(part) ==
    LET e == PyFind(part, HeaderEnd, 0)
    IN  IF e = -1 THEN part ELSE PySlice(part, 0, e)

\* the part of the split body that open number i was made for
OpenedPart(i) == parts[opens[i].part]

Wrote(i) == opens[i].outcome \in {"ok", "ENOSPC"}

\* C1: every file do_POST creates or overwrites lies inside the served
\* root directory, whatever filename the client supplied.
C1_WritesInsideRoot ==
    \A i \in 1..Len(opens) : Wrote(i) => InsideRoot(opens[i].at)

\* C2: with uploads disabled every POST is answered 405 and nothing else,
\* whatever its headers and body: the handler never reads the body, never
\* opens a file, never raises, and once it has finished the one response
\* sent is the 405.
C2_DisabledAlways405 ==
    ~cfgUploads =>
        /\ pc \in {"accepted", "do_POST", "done"}
        /\ opens = << >>
        /\ files = InitialFiles
        /\ \A i \in 1..Len(responses) : responses[i] = Response(405)
        /\ pc = "done" => responses = << Response(405) >>
        /\ pc # "done" => responses = << >>

\* C2 witness: uploads disabled, no Content-Type, a Content-Length that is
\* not a number, a body with a file part, and the 405 has been sent.
C2_Witness ==
    /\ ~cfgUploads
    /\ hdrContentType = NoHeader
    /\ hdrContentLength = <<"a", "b", "c">>
    /\ Len(form) > 0
    /\ pc = "done"
    /\ responses = << Response(405) >>

\* the filenames that are non-empty text without a path component
PlainFilenames ==
    { n \in Filenames :
        /\ n # << >>
        /\ ~DecodeRaises(n)
        /\ ~PyIn(<< "/" >>, n)
        /\ n \notin {<<".">>, <<".", ".">>} }

FileContents == { <<"h", "i">>, <<"y", "o">> }

IsPlainFilePart(p) ==
    \E n \in PlainFilenames, c \in FileContents : p = FramedPart(FileHeader(n), c)

IsFieldPart(p) == \E c \in FieldContents : p = FramedPart(FieldHeader, c)

PlainName(p) == CHOOSE n \in PlainFilenames : \E c \in FileContents : p = FramedPart(FileHeader(n), c)

PlainContent(p) == CHOOSE c \in FileContents : p = FramedPart(FileHeader(PlainName(p)), c)

\* C3: multipart round trip.  For a request with the upload form's headers
\* whose parts are well-framed file parts with a plain non-empty filename
\* and parts without a filename, once the handler has finished without a
\* failed write, every file part's name exists in the root with exactly
\* the part's content (the last part of a name wins), and no file was
\* opened for a part without a filename.
C3_RoundTrip ==
    ( /\ cfgUploads
      /\ GoodHeaders
      /\ \A j \in 1..Len(form) : IsPlainFilePart(form[j]) \/ IsFieldPart(form[j])
      /\ Finished
      /\ \A i \in 1..Len(opens) : opens[i].outcome = "ok" )
    =>
    \A j \in 1..Len(form) :
        IF IsPlainFilePart(form[j])
        THEN LET at == RootComps \o << PlainName(form[j]) >>
             IN  \/ \E k \in (j + 1)..Len(form) :
                        IsPlainFilePart(form[k]) /\ PlainName(form[k]) = PlainName(form[j])
                 \/ /\ at \in DOMAIN files
                    /\ files[at] = PlainContent(form[j])
                    /\ \E i \in 1..Len(opens) : opens[i].part = j + 1
        ELSE \A i \in 1..Len(opens) : opens[i].part # j + 1

\* Supporting lemma (no claim's formula): the round trip does hold when
\* every part is a well-framed file part whose name has no % in it: once
\* the handler has finished without a failed write it has sent the 303 and
\* every name holds the content of the last part that carried it.
RoundTripOfPlainUploads ==
    ( /\ cfgUploads
      /\ GoodHeaders
      /\ \A j \in 1..Len(form) :
            IsPlainFilePart(form[j]) /\ ~PyIn(<< "%" >>, PlainName(form[j]))
      /\ Finished
      /\ \A i \in 1..Len(opens) : opens[i].outcome = "ok" )
    =>
    /\ responses = << Redirect(reqPath) >>
    /\ Len(opens) = Len(form)
    /\ \A j \in 1..Len(form) :
        LET at == RootComps \o << PlainName(form[j]) >>
        IN  /\ opens[j].at = at /\ opens[j].data = PlainContent(form[j])
            /\ \/ \E k \in (j + 1)..Len(form) : PlainName(form[k]) = PlainName(form[j])
               \/ (at \in DOMAIN files /\ files[at] = PlainContent(form[j]))

\* C4: every POST ends with exactly one response, of status 303, 405, 400
\* or 500; no request ends in an unhandled exception with no response.
C4_ExactlyOneResponse ==
    /\ Len(responses) <= 1
    /\ pc # "crashed"
    /\ pc = "done" =>
         /\ Len(responses) = 1
         /\ responses[1].status \in {303, 405, 400, 500}

\* C7: a part is treated as a file upload only if its header block
\* contains the marker filename=" : a file is never opened for a part
\* whose header block lacks it.
C7_FileOnlyWithHeaderMarker ==
    \A i \in 1..Len(opens) : PyIn(QuotedFilenameMarker, HeaderBlock(OpenedPart(i)))

\* a file part with no blank line, or fewer than two bytes after it
MalformedFilePart(part) ==
    /\ PyIn(QuotedFilenameMarker, HeaderBlock(part))
    /\ LET e == PyFind(part, HeaderEnd, 0)
       IN  e = -1 \/ Len(part) - (e + 4) < 2

\* C8: a malformed file part is a parse error for that part: no file is
\* created or overwritten for it, and the handler does not crash on it.
C8_MalformedPartWritesNothing ==
    /\ \A i \in 1..Len(opens) : ~MalformedFilePart(OpenedPart(i))
    /\ (pc = "crashed" /\ idx \in 1..Len(parts)) => ~MalformedFilePart(parts[idx])

\* C9: write-failure policy.  Files are opened in body order; a failed
\* write is the last one attempted, the handler then leaves the loop and,
\* once finished, has sent 500 as the only response; a 303 is sent only
\* after every part was processed without a failed write, and carries the
\* request path as its Location.
C9_WriteFailurePolicy ==
    /\ \A i, j \in 1..Len(opens) : i < j => opens[i].part < opens[j].part
    /\ Len(responses) <= 1
    /\ \A i \in 1..Len(opens) :
         opens[i].outcome # "ok" =>
            /\ i = Len(opens)
            /\ pc # "loop"
            /\ Finished => responses = << Response(500) >>
    /\ \A r \in 1..Len(responses) :
         responses[r].status = 303 =>
            /\ responses[r] = Redirect(reqPath)
            /\ idx > Len(parts)
            /\ \A i \in 1..Len(opens) : opens[i].outcome = "ok"

\* the rows i < j of the emitted table
RowPairs == { p \in (1..Len(rows)) \X (1..Len(rows)) : p[1] < p[2] }

\* position of an entry in what os.listdir returned
ListedAt(name) == CHOOSE i \in 1..Len(listed) : listed[i].name = name

GenerationFailed == genOutcome \notin {None, "ok"}

\* C6: when TLS is requested and certificate generation fails at any step,
\* main does not crash: args.ssl is off, the socket is never wrapped and
\* the server goes on to accept connections in plaintext; and when TLS is
\* requested and generation succeeded or was not needed, no connection is
\* accepted before the socket is wrapped.
C6_FallbackToPlaintext ==
    /\ GenerationFailed =>
          /\ askedSsl
          /\ ~argSsl
          /\ ~wrapped
          /\ bpc \in {"create_server", "wrap", "serving"}
          /\ bpc = "serving" => ENABLED serve_forever_accept \/ accepted = MaxAccepted
    /\ (askedSsl /\ ~GenerationFailed /\ accepted > 0) => wrapped
    /\ wrapped => askedSsl /\ certFile = "valid" /\ keyFile = "valid"

\* C6 witness: writing the key file failed, and the server has accepted a
\* connection on the plain socket.
C6_Witness ==
    /\ askedSsl
    /\ genOutcome = "write_key"
    /\ bpc = "serving"
    /\ accepted > 0
    /\ ~wrapped

\* C10: while one client is stalled in the middle of its upload body (its
\* handler blocked in rfile.read), a complete request waiting on another
\* connection is eventually answered.
C10_StalledUploaderBlocksOnlyItself ==
    \A c1, c2 \in Conns :
        (/\ c1 # c2
         /\ conn[c1].st = "handling" /\ conn[c1].left > 0
         /\ conn[c2].st = "queued" /\ conn[c2].left = 0)
            ~> (conn[c2].st = "answered")

====
